---- MODULE Spec2Model ----
(***************************************************************************)
(* Resource accounting engine of the Kubernetes Resource API (main.go):    *)
(* getNodeInfo extracts capacity/allocatable per node, getNodeFreeResources *)
(* subtracts the requests of the non-terminated pods, getNodesHandler runs  *)
(* one reporting cycle per HTTP request.                                    *)
(*                                                                          *)
(* A resource.Quantity is modelled as an integer number of milli-units      *)
(* (1 CPU = 1000, 1 GPU = 1000); Quantity.Sub is exact integer subtraction. *)
(* A ResourceList is a function from a finite set of resource names to      *)
(* quantities; a resource name is a sequence of tokens so that              *)
(* strings.HasPrefix is a real prefix test.                                 *)
(***************************************************************************)
EXTENDS Integers, Sequences, FiniteSets, TLC

VARIABLES
    clusterNodes,   \* the cluster's node objects (what Nodes().List returns)
    clusterPods,    \* the cluster's pod objects, every phase included
    pc,             \* per caller: where it stands in its calling sequence
    nodes,          \* per caller: its map[string]*Node
    ret,            \* per caller: the error returned by its last call
    lastCall,       \* per caller: the function it called last
    nodeSnap,       \* per caller: the node list its last node listing returned
    podSnap,        \* per caller: the pod list its last pod listing returned
    gpuReqs,        \* per caller: gpuReq computed for each listed pod (0 if skipped)
    resp,           \* per caller: the HTTP response written by the handler
    nodeFetches,    \* per caller: node listings issued in the current cycle
    podFetches,     \* per caller: pod listings issued in the current cycle
    fetchErr        \* per caller: what each listing of its current cycle came back
                    \* with, in order (a direct call is a cycle of its own)

vars == <<clusterNodes, clusterPods, pc, nodes, ret, lastCall, nodeSnap,
          podSnap, gpuReqs, resp, nodeFetches, podFetches, fetchErr>>

----------------------------------------------------------------------------
(* Bounds of the model *)

MaxPods == 2

NumHandlers == 2

MaxGpu == 2

MaxCalls == 3

----------------------------------------------------------------------------
(* Resource names *)

ResourceCPU == <<"cpu">>
ResourceMemory == <<"memory">>
ResourceEphemeralStorage == <<"ephemeral-storage">>
NvidiaGpu == <<"nvidia.com", "/", "gpu">>
NvidiaMig == <<"nvidia.com", "/", "mig-1g.5gb">>
AmdGpu == <<"amd.com", "/", "gpu">>

VendorPrefix == <<"nvidia.com">>

Nil == "nil"

\* strings.HasPrefix(s, prefix)
HasPrefix(s, prefix) ==
    /\ Len(s) >= Len(prefix)
    /\ SubSeq(s, 1, Len(prefix)) = prefix

\* Quantity.IsZero
IsZero(q) == q = 0

\* list[key] of a Go map: the zero Quantity when the key is absent
Lookup(list, key) == IF key \in DOMAIN list THEN list[key] ELSE 0

\* The orders in which `for key, value := range list` may enumerate a map
\* with key set S: every permutation of S
RECURSIVE Orders(_)
Orders(S) ==
    IF S = {} THEN {<<>>}
    ELSE UNION {{<<k>> \o rest : rest \in Orders(S \ {k})} : k \in S}

\* Mutant of ScanGpu: a zero value overrides too (no IsZero test)
RECURSIVE ScanGpuAnyValue(_, _, _)
ScanGpuAnyValue(list, order, acc) ==
    IF order = <<>> THEN acc
    ELSE ScanGpuAnyValue(list, Tail(order),
                         IF HasPrefix(Head(order), <<"nvidia.com">>)
                         THEN list[Head(order)] ELSE acc)

\* Mutant of ScanGpu: every nonzero value overrides, whatever its key (no
\* HasPrefix test)
RECURSIVE ScanGpuAnyKey(_, _, _)
ScanGpuAnyKey(list, order, acc) ==
    IF order = <<>> THEN acc
    ELSE ScanGpuAnyKey(list, Tail(order),
                       IF ~IsZero(list[Head(order)])
                       THEN list[Head(order)] ELSE acc)

\* The range loop over a resource list that overrides the GPU quantity with
\* every nonzero value whose key has the vendor prefix, in enumeration order
RECURSIVE ScanGpu(_, _, _)
ScanGpu(list, order, acc) ==
    IF order = <<>> THEN acc
    ELSE LET key == Head(order)
             value == list[key]
         IN ScanGpu(list, Tail(order),
                    IF HasPrefix(key, VendorPrefix) /\ ~IsZero(value)
                    THEN value ELSE acc)

\* gpuCapacity of a node: the "nvidia.com/gpu" entry, then the scan
gpuCapacity(capacity, order) ==
    ScanGpu(capacity, order, Lookup(capacity, NvidiaGpu))

\* gpuReq of a pod: the "nvidia.com/gpu" entry of podReqs, then the scan
gpuReq(podReqs, order) ==
    ScanGpu(podReqs, order, Lookup(podReqs, NvidiaGpu))

\* One enumeration order per distinct outcome of the scan: the rest of the
\* program sees the order only through the value the scan leaves behind
RangeOrders(list) ==
    LET all == Orders(DOMAIN list)
        outcomes == {ScanGpu(list, o, Lookup(list, NvidiaGpu)) : o \in all}
    IN {CHOOSE o \in all : ScanGpu(list, o, Lookup(list, NvidiaGpu)) = v :
            v \in outcomes}

\* The choices of one enumeration order per resource list of a sequence
RECURSIVE OrderChoices(_)
OrderChoices(lists) ==
    IF lists = <<>> THEN {<<>>}
    ELSE {<<o>> \o rest : o \in RangeOrders(Head(lists)),
                          rest \in OrderChoices(Tail(lists))}

----------------------------------------------------------------------------
(* Records of main.go *)

\* type Resources struct
Resources(cpu, memory, gpu, ephemeral) ==
    [Cpu |-> cpu, Memory |-> memory, Gpu |-> gpu, Ephemeral |-> ephemeral]

\* The zero value of Resources (four zero Quantities)
ZeroResources == Resources(0, 0, 0, 0)

\* A Go slice of taints: nil, or a list of taints
NilTaints == [isNil |-> TRUE, items |-> <<>>]
Taints(items) == [isNil |-> FALSE, items |-> items]

\* type Node struct
Node(name, taints, allocatable, capacity, free) ==
    [Name |-> name, Taints |-> taints, Allocatable |-> allocatable,
     Capacity |-> capacity, Free |-> free]

----------------------------------------------------------------------------
(* The cluster-state provider: node and pod objects, and the two listings *)

\* A corev1.Node: metadata name, spec taints, status capacity and allocatable
NodeObject(name, taints, capacity, allocatable) ==
    [Name |-> name, Taints |-> taints, Capacity |-> capacity,
     Allocatable |-> allocatable]

\* A corev1.Container: resource requests and limits
Container(requests, limits) == [Requests |-> requests, Limits |-> limits]

\* A corev1.Pod: bound node name, phase, containers
PodObject(nodeName, phase, containers) ==
    [NodeName |-> nodeName, Phase |-> phase, Containers |-> containers]

PodSucceeded == "Succeeded"
PodFailed == "Failed"

\* node-1 of the tests: no GPU, no taints
Node1 ==
    NodeObject("node-1", NilTaints,
        (ResourceCPU :> 4000) @@ (ResourceMemory :> 3000)
            @@ (ResourceEphemeralStorage :> 2000),
        (ResourceCPU :> 3000) @@ (ResourceMemory :> 2500)
            @@ (ResourceEphemeralStorage :> 1500))

\* The GPU entries of the GPU node: a zero and a positive vendor key in its
\* capacity, and an allocatable GPU count below the capacity
Node2Gpu == <<(NvidiaGpu :> 0) @@ (NvidiaMig :> 2000), (NvidiaGpu :> 1000)>>

\* node-2 of the tests: a tainted GPU node without ephemeral storage
Node2(gpu) ==
    NodeObject("node-2",
        Taints(<<[Key |-> "test-key", Value |-> "test-value",
                  Effect |-> "test-effect"]>>),
        (ResourceCPU :> 8000) @@ (ResourceMemory :> 6000) @@ gpu[1],
        (ResourceCPU :> 6000) @@ (ResourceMemory :> 4500) @@ gpu[2])

\* The node lists a cluster may hold (node names are unique in a cluster)
NodeLists == {<<Node1>>, <<Node1, Node2(Node2Gpu)>>}

\* The pods a cluster may hold, as they are before they terminate
PodTemplates ==
    { \* bound to node-2: two containers, limits above requests, a zero and a
      \* positive vendor key
      PodObject("node-2", "Running",
        <<Container((ResourceCPU :> 3000) @@ (ResourceMemory :> 2500)
                        @@ (NvidiaGpu :> 0),
                    (ResourceCPU :> 5000) @@ (ResourceMemory :> 2500)),
          Container((ResourceCPU :> 1000) @@ (NvidiaMig :> 1000),
                    (ResourceCPU :> 1000) @@ (NvidiaMig :> 1000))>>),
      \* bound to node-1, which it over-commits; two positive vendor keys
      PodObject("node-1", "Running",
        <<Container((ResourceCPU :> 3500) @@ (ResourceEphemeralStorage :> 250)
                        @@ (NvidiaGpu :> 1000) @@ (NvidiaMig :> 2000),
                    <<>>)>>),
      \* bound to node-1 as well, with requests of its own
      PodObject("node-1", "Running",
        <<Container((ResourceCPU :> 250) @@ (ResourceMemory :> 1000),
                    (ResourceCPU :> 500) @@ (ResourceMemory :> 1000))>>),
      \* not scheduled yet
      PodObject("", "Pending",
        <<Container((ResourceCPU :> 500) @@ (ResourceMemory :> 250)
                        @@ (ResourceEphemeralStorage :> 750),
                    <<>>)>>) }

\* A pod in the phase it was created in, or terminated (the pods that
\* terminate are the GPU jobs)
PodStates ==
    PodTemplates \cup
        {[p EXCEPT !.Phase = ph] :
            p \in {q \in PodTemplates :
                    \E i \in 1..Len(q.Containers) :
                        NvidiaMig \in DOMAIN q.Containers[i].Requests},
            ph \in {PodSucceeded, PodFailed}}

\* The pod lists of at most MaxPods pods
PodLists == UNION {[1..n -> PodStates] : n \in 0..MaxPods}

FetchErrors == {"connection refused", "forbidden"}

\* client.CoreV1().Nodes().List(ctx, ListOptions{}) on a working provider
ListNodes(cluster) == [Items |-> cluster, err |-> Nil]

\* Mutant of NonTerminatedSelector: the selector excludes Succeeded only
SelectorWithoutFailed == {PodSucceeded}

\* FieldSelector "status.phase!=Succeeded,status.phase!=Failed"
NonTerminatedSelector == {PodSucceeded, PodFailed}

\* client.CoreV1().Pods("").List(ctx, ListOptions{FieldSelector: ...}): the
\* provider returns the pods whose phase is none of the excluded ones
ListPods(cluster, excludedPhases) ==
    LET keep(p) == p.Phase \notin excludedPhases
    IN [Items |-> SelectSeq(cluster, keep), err |-> Nil]

\* A listing that fails with error e
ListFailed(e) == [Items |-> <<>>, err |-> e]

----------------------------------------------------------------------------
(* resourcehelper.PodRequestsAndLimits: per resource name, the sum over the
   pod's containers of the requests, and separately of the limits (the model's
   pods have no init containers and no overhead) *)

addResourceList(list, new) ==
    [k \in DOMAIN list \cup DOMAIN new |->
        IF k \in DOMAIN new THEN Lookup(list, k) + new[k] ELSE list[k]]

RECURSIVE SumRequests(_)
SumRequests(containers) ==
    IF containers = <<>> THEN <<>>
    ELSE addResourceList(SumRequests(SubSeq(containers, 1, Len(containers) - 1)),
                         containers[Len(containers)].Requests)

RECURSIVE SumLimits(_)
SumLimits(containers) ==
    IF containers = <<>> THEN <<>>
    ELSE addResourceList(SumLimits(SubSeq(containers, 1, Len(containers) - 1)),
                         containers[Len(containers)].Limits)

\* Mutant of PodRequestsAndLimits: the requests are raised to the limits where
\* the limits exceed them
PodRequestsReconciled(pod) ==
    LET r == SumRequests(pod.Containers)
        l == SumLimits(pod.Containers)
    IN [reqs |-> [k \in DOMAIN r \cup DOMAIN l |->
                    IF Lookup(l, k) > Lookup(r, k) THEN l[k] ELSE Lookup(r, k)],
        limits |-> l]

PodRequestsAndLimits(pod) ==
    [reqs |-> SumRequests(pod.Containers), limits |-> SumLimits(pod.Containers)]

----------------------------------------------------------------------------
(* getNodeInfo *)

\* nodes[key] = value on a Go map
MapPut(m, key, value) ==
    [k \in DOMAIN m \cup {key} |-> IF k = key THEN value ELSE m[k]]

\* Mutant of newNode: Capacity is filled from the allocatable list
newNodeCapacityFromAllocatable(node, order) ==
    LET gpu == gpuCapacity(node.Capacity, order)
        r == Resources(Lookup(node.Allocatable, ResourceCPU),
                       Lookup(node.Allocatable, ResourceMemory),
                       gpu,
                       Lookup(node.Allocatable, ResourceEphemeralStorage))
    IN Node(node.Name, node.Taints, r, r, ZeroResources)

\* Mutant of newNode: the allocatable GPU is resolved from the allocatable list
newNodeGpuFromAllocatable(node, order) ==
    Node(node.Name, node.Taints,
         Resources(Lookup(node.Allocatable, ResourceCPU),
                   Lookup(node.Allocatable, ResourceMemory),
                   Lookup(node.Allocatable, NvidiaGpu),
                   Lookup(node.Allocatable, ResourceEphemeralStorage)),
         Resources(Lookup(node.Capacity, ResourceCPU),
                   Lookup(node.Capacity, ResourceMemory),
                   gpuCapacity(node.Capacity, order),
                   Lookup(node.Capacity, ResourceEphemeralStorage)),
         ZeroResources)

\* The Node built for one listed node; order is the enumeration order of the
\* range loop over its capacity
newNode(node, order) ==
    LET gpu == gpuCapacity(node.Capacity, order)
    IN Node(node.Name, node.Taints,
            Resources(Lookup(node.Allocatable, ResourceCPU),
                      Lookup(node.Allocatable, ResourceMemory),
                      gpu,
                      Lookup(node.Allocatable, ResourceEphemeralStorage)),
            Resources(Lookup(node.Capacity, ResourceCPU),
                      Lookup(node.Capacity, ResourceMemory),
                      gpu,
                      Lookup(node.Capacity, ResourceEphemeralStorage)),
            ZeroResources)

RECURSIVE addNodes(_, _, _)
addNodes(m, items, orders) ==
    IF items = <<>> THEN m
    ELSE addNodes(MapPut(m, Head(items).Name, newNode(Head(items), Head(orders))),
                  Tail(items), Tail(orders))

\* Mutant of getNodeInfo: the error of the listing is dropped and the map is
\* emptied
getNodeInfoSwallowsError(m, nodeList, orders) ==
    IF nodeList.err # Nil
    THEN [nodes |-> <<>>, err |-> Nil]
    ELSE [nodes |-> addNodes(m, nodeList.Items, orders), err |-> Nil]

\* getNodeInfo(client, nodes): the map after the call and the error returned
getNodeInfo(m, nodeList, orders) ==
    IF nodeList.err # Nil
    THEN [nodes |-> m, err |-> nodeList.err]
    ELSE [nodes |-> addNodes(m, nodeList.Items, orders), err |-> Nil]

----------------------------------------------------------------------------
(* getNodeFreeResources *)

\* Mutant of copyAllocatable: the baseline is copied from Capacity
copyCapacity(node) ==
    [node EXCEPT !.Free = Resources(node.Capacity.Cpu, node.Capacity.Memory,
                                    node.Capacity.Gpu, node.Capacity.Ephemeral)]

\* node.Free = Resources{... node.Allocatable.X.DeepCopy() ...}
copyAllocatable(node) ==
    [node EXCEPT !.Free = Resources(node.Allocatable.Cpu, node.Allocatable.Memory,
                                    node.Allocatable.Gpu, node.Allocatable.Ephemeral)]

\* Mutant of subtractPod: every difference is floored at zero
subtractPodClamped(node, pod, order) ==
    LET podReqs == PodRequestsAndLimits(pod).reqs
        floor(x) == IF x < 0 THEN 0 ELSE x
    IN [node EXCEPT !.Free = Resources(
            floor(node.Free.Cpu - Lookup(podReqs, ResourceCPU)),
            floor(node.Free.Memory - Lookup(podReqs, ResourceMemory)),
            floor(node.Free.Gpu - gpuReq(podReqs, order)),
            floor(node.Free.Ephemeral - Lookup(podReqs, ResourceEphemeralStorage)))]

\* Mutant of subtractPod: the requests are taken off Allocatable and the
\* difference is assigned to Free, so that the pod enumerated last wins
subtractPodOverwrites(node, pod, order) ==
    LET podReqs == PodRequestsAndLimits(pod).reqs
    IN [node EXCEPT !.Free = Resources(
            node.Allocatable.Cpu - Lookup(podReqs, ResourceCPU),
            node.Allocatable.Memory - Lookup(podReqs, ResourceMemory),
            node.Allocatable.Gpu - gpuReq(podReqs, order),
            node.Allocatable.Ephemeral - Lookup(podReqs, ResourceEphemeralStorage))]

\* Mutant of subtractPod: Free shares its quantities with Allocatable, so the
\* subtraction shows in both
subtractPodAliased(node, pod, order) ==
    LET podReqs == PodRequestsAndLimits(pod).reqs
        free == Resources(
            node.Free.Cpu - Lookup(podReqs, ResourceCPU),
            node.Free.Memory - Lookup(podReqs, ResourceMemory),
            node.Free.Gpu - gpuReq(podReqs, order),
            node.Free.Ephemeral - Lookup(podReqs, ResourceEphemeralStorage))
    IN [node EXCEPT !.Free = free, !.Allocatable = free]

\* The four Free.X.Sub(xReq) of one pod on its node
subtractPod(node, pod, order) ==
    LET podReqs == PodRequestsAndLimits(pod).reqs
        cpuReq == Lookup(podReqs, ResourceCPU)
        memReq == Lookup(podReqs, ResourceMemory)
        gReq == gpuReq(podReqs, order)
        ephemeralReq == Lookup(podReqs, ResourceEphemeralStorage)
    IN [node EXCEPT !.Free = Resources(node.Free.Cpu - cpuReq,
                                       node.Free.Memory - memReq,
                                       node.Free.Gpu - gReq,
                                       node.Free.Ephemeral - ephemeralReq)]

\* Mutant of subtractPods: a pod bound to a name that is no key of the map
\* gets an entry of its own
RECURSIVE subtractPodsNoSkip(_, _, _)
subtractPodsNoSkip(m, items, orders) ==
    IF items = <<>> THEN m
    ELSE LET pod == Head(items)
             node == IF pod.NodeName \in DOMAIN m THEN m[pod.NodeName]
                     ELSE Node(pod.NodeName, NilTaints, ZeroResources,
                               ZeroResources, ZeroResources)
         IN subtractPodsNoSkip(
                MapPut(m, pod.NodeName, subtractPod(node, pod, Head(orders))),
                Tail(items), Tail(orders))

RECURSIVE subtractPods(_, _, _)
subtractPods(m, items, orders) ==
    IF items = <<>> THEN m
    ELSE LET pod == Head(items)
         IN subtractPods(
                IF pod.NodeName \notin DOMAIN m THEN m
                ELSE [m EXCEPT ![pod.NodeName] = subtractPod(@, pod, Head(orders))],
                Tail(items), Tail(orders))

\* Mutant of getNodeFreeResources: the baseline copy runs before the error
\* of the listing is looked at
getNodeFreeResourcesCopiesFirst(m, podList, orders) ==
    LET base == [n \in DOMAIN m |-> copyAllocatable(m[n])]
    IN IF podList.err # Nil
       THEN [nodes |-> base, err |-> podList.err]
       ELSE [nodes |-> subtractPods(base, podList.Items, orders), err |-> Nil]

\* Mutant of getNodeFreeResources: no baseline copy, the requests are taken off
\* Free as the map holds it
getNodeFreeResourcesNoBaseline(m, podList, orders) ==
    IF podList.err # Nil
    THEN [nodes |-> m, err |-> podList.err]
    ELSE [nodes |-> subtractPods(m, podList.Items, orders), err |-> Nil]

\* getNodeFreeResources(kubeClient, nodes): the map after the call and the
\* error returned
getNodeFreeResources(m, podList, orders) ==
    IF podList.err # Nil
    THEN [nodes |-> m, err |-> podList.err]
    ELSE [nodes |-> subtractPods([n \in DOMAIN m |-> copyAllocatable(m[n])],
                                 podList.Items, orders),
          err |-> Nil]

\* The gpuReq the loop computes for each listed pod (zero for a skipped pod)
podGpuReqs(m, items, orders) ==
    [i \in 1..Len(items) |->
        IF items[i].NodeName \notin DOMAIN m THEN 0
        ELSE gpuReq(PodRequestsAndLimits(items[i]).reqs, orders[i])]

\* The reconciled request list of every pod of a list
podReqLists(items) == [i \in 1..Len(items) |-> PodRequestsAndLimits(items[i]).reqs]

\* The capacity list of every node of a list
capacityLists(items) == [i \in 1..Len(items) |-> items[i].Capacity]

----------------------------------------------------------------------------
(* getNodeStructured and the handler's response *)

\* Quantity.Value(): the quantity in whole units, rounded away from zero
Value(q) ==
    IF q % 1000 = 0 THEN q \div 1000
    ELSE IF q > 0 THEN (q \div 1000) + 1
    ELSE -(((-q) \div 1000) + 1)

\* Quantity.AsApproximateFloat64(): the float whose value is q/1000, kept as
\* the fraction it stands for
AsApproximateFloat64(q) == [num |-> q, den |-> 1000]

\* ResourcesJson{Cpu: r.Cpu.AsApproximateFloat64(), Memory: r.Memory.Value(), ...}
ResourcesJson(r) ==
    [cpu |-> AsApproximateFloat64(r.Cpu), memory |-> Value(r.Memory),
     gpu |-> Value(r.Gpu), ephemeral |-> Value(r.Ephemeral)]

\* Mutant of getNodeStructured: the taints are copied as they are, nil included
getNodeStructuredCopiesTaints(node) ==
    [name |-> node.Name,
     taints |-> node.Taints,
     capacity |-> ResourcesJson(node.Capacity),
     allocatable |-> ResourcesJson(node.Allocatable),
     free |-> ResourcesJson(node.Free)]

\* getNodeStructured(node): the NodeJson of a Node
getNodeStructured(node) ==
    [name |-> node.Name,
     taints |-> IF node.Taints.isNil THEN Taints(<<>>) ELSE node.Taints,
     capacity |-> ResourcesJson(node.Capacity),
     allocatable |-> ResourcesJson(node.Allocatable),
     free |-> ResourcesJson(node.Free)]

\* nodeSlice: getNodeStructured of every map value, in the order the range
\* loop over the map enumerates them
nodeSlice(m, order) == [i \in 1..Len(order) |-> getNodeStructured(m[order[i]])]

NoResponse == [status |-> "none", body |-> <<>>]

\* c.JSON(http.StatusInternalServerError, message)
ErrorResponse(message) == [status |-> "500", body |-> message]

\* c.IndentedJSON(http.StatusOK, nodeSlice)
OkResponse(slice) == [status |-> "200", body |-> slice]

----------------------------------------------------------------------------
(* Callers: caller 0 calls the two functions directly on one map, the way
   main_test.go does; callers 1..NumHandlers are invocations of the handler
   returned by getNodesHandler *)

TestCaller == "test"
Handlers == 1..NumHandlers

\* GPU entries of a resource list: every value up to MaxGpu for the two
\* nvidia.com names and for a name of another vendor
GpuKeys == {NvidiaGpu, NvidiaMig, AmdGpu}
GpuLists ==
    UNION {[K -> {g * 1000 : g \in 0..MaxGpu}] : K \in SUBSET GpuKeys}

\* A one-node cluster whose node advertises the GPU entries gpu, with one pod
\* on it that requests the same entries
GpuCluster(gpu) ==
    [nodes |-> <<NodeObject("node-1", NilTaints,
                    (ResourceCPU :> 4000) @@ gpu, (ResourceCPU :> 3000) @@ gpu)>>,
     pods |-> <<PodObject("node-1", "Running",
                    <<Container((ResourceCPU :> 500) @@ gpu, gpu)>>)>>]

Clusters ==
    {[nodes |-> nl, pods |-> pl] : nl \in NodeLists, pl \in PodLists}
        \cup {GpuCluster(gpu) : gpu \in GpuLists}

InitCaller(callers, start) ==
    /\ pc = [c \in callers |-> start]
    /\ nodes = [c \in callers |-> <<>>]
    /\ ret = [c \in callers |-> Nil]
    /\ lastCall = [c \in callers |-> "none"]
    /\ nodeSnap = [c \in callers |-> <<>>]
    /\ podSnap = [c \in callers |-> <<>>]
    /\ gpuReqs = [c \in callers |-> <<>>]
    /\ resp = [c \in callers |-> NoResponse]
    /\ nodeFetches = [c \in callers |-> 0]
    /\ podFetches = [c \in callers |-> 0]
    /\ fetchErr = [c \in callers |-> <<>>]

Init ==
    /\ \E cl \in Clusters : clusterNodes = cl.nodes /\ clusterPods = cl.pods
    /\ InitCaller({TestCaller}, "test")

\* A pod of the cluster reaches a terminal phase
PodTerminates(i, phase) ==
    /\ i \in DOMAIN clusterPods
    /\ clusterPods[i].Phase \notin {PodSucceeded, PodFailed}
    /\ clusterPods' = [clusterPods EXCEPT ![i].Phase = phase]
    /\ UNCHANGED <<clusterNodes, pc, nodes, ret, lastCall, nodeSnap, podSnap,
                   gpuReqs, resp, nodeFetches, podFetches, fetchErr>>

\* The node listed last leaves the cluster
NodeLeaves ==
    /\ Len(clusterNodes) > 1
    /\ clusterNodes' = SubSeq(clusterNodes, 1, Len(clusterNodes) - 1)
    /\ UNCHANGED <<clusterPods, pc, nodes, ret, lastCall, nodeSnap, podSnap,
                   gpuReqs, resp, nodeFetches, podFetches, fetchErr>>

\* getNodeInfo(kubeClient, nodes) called directly; the node listing succeeds
CallGetNodeInfo(c) ==
    /\ pc[c] = "test"
    /\ LET nodeList == ListNodes(clusterNodes)
       IN \E orders \in OrderChoices(capacityLists(nodeList.Items)) :
            LET r == getNodeInfo(nodes[c], nodeList, orders)
            IN /\ nodes' = [nodes EXCEPT ![c] = r.nodes]
               /\ ret' = [ret EXCEPT ![c] = r.err]
               /\ nodeSnap' = [nodeSnap EXCEPT ![c] = nodeList.Items]
               /\ fetchErr' = [fetchErr EXCEPT ![c] = <<nodeList.err>>]
    /\ lastCall' = [lastCall EXCEPT ![c] = "getNodeInfo"]
    /\ podSnap' = [podSnap EXCEPT ![c] = <<>>]
    /\ gpuReqs' = [gpuReqs EXCEPT ![c] = <<>>]
    /\ UNCHANGED <<clusterNodes, clusterPods, pc, resp, nodeFetches, podFetches>>

\* getNodeInfo(kubeClient, nodes) called directly; the node listing fails
CallGetNodeInfoFails(c) ==
    /\ pc[c] = "test"
    /\ \E e \in FetchErrors :
            LET r == getNodeInfo(nodes[c], ListFailed(e), <<>>)
            IN /\ nodes' = [nodes EXCEPT ![c] = r.nodes]
               /\ ret' = [ret EXCEPT ![c] = r.err]
               /\ fetchErr' = [fetchErr EXCEPT ![c] = <<e>>]
    /\ lastCall' = [lastCall EXCEPT ![c] = "getNodeInfo"]
    /\ UNCHANGED <<clusterNodes, clusterPods, pc, nodeSnap, podSnap, gpuReqs,
                   resp, nodeFetches, podFetches>>

\* getNodeFreeResources(kubeClient, nodes) called directly; the pod listing
\* succeeds
CallGetNodeFreeResources(c) ==
    /\ pc[c] = "test"
    /\ LET podList == ListPods(clusterPods, NonTerminatedSelector)
       IN \E orders \in OrderChoices(podReqLists(podList.Items)) :
            LET r == getNodeFreeResources(nodes[c], podList, orders)
            IN /\ nodes' = [nodes EXCEPT ![c] = r.nodes]
               /\ ret' = [ret EXCEPT ![c] = r.err]
               /\ podSnap' = [podSnap EXCEPT ![c] = podList.Items]
               /\ fetchErr' = [fetchErr EXCEPT ![c] = <<podList.err>>]
               /\ gpuReqs' = [gpuReqs EXCEPT
                                ![c] = podGpuReqs(nodes[c], podList.Items, orders)]
    /\ lastCall' = [lastCall EXCEPT ![c] = "getNodeFreeResources"]
    /\ UNCHANGED <<clusterNodes, clusterPods, pc, nodeSnap, resp, nodeFetches,
                   podFetches>>

\* getNodeFreeResources(kubeClient, nodes) called directly; the pod listing
\* fails
CallGetNodeFreeResourcesFails(c) ==
    /\ pc[c] = "test"
    /\ \E e \in FetchErrors :
            LET r == getNodeFreeResources(nodes[c], ListFailed(e), <<>>)
            IN /\ nodes' = [nodes EXCEPT ![c] = r.nodes]
               /\ ret' = [ret EXCEPT ![c] = r.err]
               /\ fetchErr' = [fetchErr EXCEPT ![c] = <<e>>]
    /\ lastCall' = [lastCall EXCEPT ![c] = "getNodeFreeResources"]
    /\ UNCHANGED <<clusterNodes, clusterPods, pc, nodeSnap, podSnap, gpuReqs,
                   resp, nodeFetches, podFetches>>

Next ==
    \/ CallGetNodeInfo(TestCaller)
    \/ CallGetNodeInfoFails(TestCaller)
    \/ CallGetNodeFreeResources(TestCaller)
    \/ CallGetNodeFreeResourcesFails(TestCaller)

Spec == Init /\ [][Next]_vars

----------------------------------------------------------------------------
(* Repeated calls of getNodeFreeResources on one map while pods of the cluster
   terminate: the caller counts its pod listings *)

RepeatInit ==
    /\ clusterNodes \in NodeLists
    /\ clusterPods \in [1..MaxPods -> PodTemplates]
    /\ InitCaller({TestCaller}, "test")

\* getNodeFreeResources(kubeClient, nodes) called once more on the same map;
\* the pod listing succeeds
RepeatGetNodeFreeResources(c) ==
    /\ pc[c] = "test"
    /\ podFetches[c] < MaxCalls
    /\ LET podList == ListPods(clusterPods, NonTerminatedSelector)
       IN \E orders \in OrderChoices(podReqLists(podList.Items)) :
            LET r == getNodeFreeResources(nodes[c], podList, orders)
            IN /\ nodes' = [nodes EXCEPT ![c] = r.nodes]
               /\ ret' = [ret EXCEPT ![c] = r.err]
               /\ podSnap' = [podSnap EXCEPT ![c] = podList.Items]
               /\ fetchErr' = [fetchErr EXCEPT ![c] = <<podList.err>>]
               /\ gpuReqs' = [gpuReqs EXCEPT
                                ![c] = podGpuReqs(nodes[c], podList.Items, orders)]
    /\ lastCall' = [lastCall EXCEPT ![c] = "getNodeFreeResources"]
    /\ podFetches' = [podFetches EXCEPT ![c] = @ + 1]
    /\ UNCHANGED <<clusterNodes, clusterPods, pc, nodeSnap, resp, nodeFetches>>

\* getNodeInfo(kubeClient, nodes), called before the first getNodeFreeResources
RepeatGetNodeInfo(c) ==
    /\ podFetches[c] = 0
    /\ CallGetNodeInfo(c)

RepeatNext ==
    \/ RepeatGetNodeInfo(TestCaller)
    \/ RepeatGetNodeFreeResources(TestCaller)
    \/ \E i \in DOMAIN clusterPods : PodTerminates(i, PodSucceeded)

RepeatSpec == RepeatInit /\ [][RepeatNext]_vars

----------------------------------------------------------------------------
(* getNodesHandler: one reporting cycle per request.  The handler blocks in
   the two listings, so a cycle is two steps: up to the return of getNodeInfo,
   and from there to the response. *)

\* Mutant of handlerGetNodeInfo: the error of getNodeInfo is not looked at
handlerGetNodeInfoIgnoresError(nodeList, orders) ==
    LET r == getNodeInfo(<<>>, nodeList, orders)
    IN [nodes |-> r.nodes, err |-> r.err, pc |-> "getNodeFreeResources",
        resp |-> NoResponse]

\* Mutant of handlerGetNodeInfo: the map is not made afresh but shared with the
\* other invocations, whose entries it still holds
handlerGetNodeInfoSharedMap(nodeList, orders) ==
    LET g == CHOOSE g \in DOMAIN nodes :
                \A k \in DOMAIN nodes :
                    Cardinality(DOMAIN nodes[k]) <= Cardinality(DOMAIN nodes[g])
        r == getNodeInfo(nodes[g], nodeList, orders)
    IN IF r.err # Nil
       THEN [nodes |-> r.nodes, err |-> r.err, pc |-> "done",
             resp |-> ErrorResponse("error retrieving node information")]
       ELSE [nodes |-> r.nodes, err |-> r.err, pc |-> "getNodeFreeResources",
             resp |-> NoResponse]

\* nodes := make(map[string]*Node); err := getNodeInfo(client, nodes) and the
\* error branch that follows it
handlerGetNodeInfo(nodeList, orders) ==
    LET r == getNodeInfo(<<>>, nodeList, orders)
    IN IF r.err # Nil
       THEN [nodes |-> r.nodes, err |-> r.err, pc |-> "done",
             resp |-> ErrorResponse("error retrieving node information")]
       ELSE [nodes |-> r.nodes, err |-> r.err, pc |-> "getNodeFreeResources",
             resp |-> NoResponse]

\* err = getNodeFreeResources(client, nodes), its error branch, and the
\* response built from the map; sliceOrder is the order in which the range
\* loop over the map enumerates its keys
handlerGetNodeFreeResources(m, podList, orders, sliceOrder) ==
    LET r == getNodeFreeResources(m, podList, orders)
    IN IF r.err # Nil
       THEN [nodes |-> r.nodes, err |-> r.err, pc |-> "done",
             resp |-> ErrorResponse("error retrieving available node resources")]
       ELSE [nodes |-> r.nodes, err |-> r.err, pc |-> "done",
             resp |-> OkResponse(nodeSlice(r.nodes, sliceOrder))]

\* The pod of the clusters the handlers run against
HandlerPod ==
    PodObject("node-2", "Running",
        <<Container((ResourceCPU :> 3000) @@ (ResourceMemory :> 2500)
                        @@ (NvidiaGpu :> 0),
                    (ResourceCPU :> 5000) @@ (ResourceMemory :> 2500)),
          Container((ResourceCPU :> 1000) @@ (NvidiaMig :> 1000),
                    (ResourceCPU :> 1000) @@ (NvidiaMig :> 1000))>>)

HandlerClusters == {[nodes |-> nl, pods |-> <<HandlerPod>>] : nl \in NodeLists}

HandlerInit ==
    /\ \E cl \in HandlerClusters : clusterNodes = cl.nodes /\ clusterPods = cl.pods
    /\ InitCaller(Handlers, "getNodeInfo")

\* First step of a cycle; the node listing succeeds
HandlerGetNodeInfo(h) ==
    /\ pc[h] = "getNodeInfo"
    /\ LET nodeList == ListNodes(clusterNodes)
       IN \E orders \in OrderChoices(capacityLists(nodeList.Items)) :
            LET r == handlerGetNodeInfo(nodeList, orders)
            IN /\ nodes' = [nodes EXCEPT ![h] = r.nodes]
               /\ ret' = [ret EXCEPT ![h] = r.err]
               /\ pc' = [pc EXCEPT ![h] = r.pc]
               /\ resp' = [resp EXCEPT ![h] = r.resp]
               /\ nodeSnap' = [nodeSnap EXCEPT ![h] = nodeList.Items]
               /\ fetchErr' = [fetchErr EXCEPT ![h] = <<nodeList.err>>]
    /\ lastCall' = [lastCall EXCEPT ![h] = "getNodeInfo"]
    /\ nodeFetches' = [nodeFetches EXCEPT ![h] = @ + 1]
    /\ UNCHANGED <<clusterNodes, clusterPods, podSnap, gpuReqs, podFetches>>

\* First step of a cycle; the node listing fails
HandlerGetNodeInfoFails(h) ==
    /\ pc[h] = "getNodeInfo"
    /\ \E e \in FetchErrors :
            LET r == handlerGetNodeInfo(ListFailed(e), <<>>)
            IN /\ nodes' = [nodes EXCEPT ![h] = r.nodes]
               /\ ret' = [ret EXCEPT ![h] = r.err]
               /\ pc' = [pc EXCEPT ![h] = r.pc]
               /\ resp' = [resp EXCEPT ![h] = r.resp]
               /\ fetchErr' = [fetchErr EXCEPT ![h] = <<e>>]
    /\ lastCall' = [lastCall EXCEPT ![h] = "getNodeInfo"]
    /\ nodeFetches' = [nodeFetches EXCEPT ![h] = @ + 1]
    /\ UNCHANGED <<clusterNodes, clusterPods, nodeSnap, podSnap, gpuReqs,
                   podFetches>>

\* Second step of a cycle; the pod listing succeeds
HandlerGetNodeFreeResources(h) ==
    /\ pc[h] = "getNodeFreeResources"
    /\ LET podList == ListPods(clusterPods, NonTerminatedSelector)
       IN \E orders \in OrderChoices(podReqLists(podList.Items)),
             sliceOrder \in Orders(DOMAIN nodes[h]) :
            LET r == handlerGetNodeFreeResources(nodes[h], podList, orders,
                                                 sliceOrder)
            IN /\ nodes' = [nodes EXCEPT ![h] = r.nodes]
               /\ ret' = [ret EXCEPT ![h] = r.err]
               /\ pc' = [pc EXCEPT ![h] = r.pc]
               /\ resp' = [resp EXCEPT ![h] = r.resp]
               /\ podSnap' = [podSnap EXCEPT ![h] = podList.Items]
               /\ fetchErr' = [fetchErr EXCEPT ![h] = Append(@, podList.err)]
               /\ gpuReqs' = [gpuReqs EXCEPT
                                ![h] = podGpuReqs(nodes[h], podList.Items, orders)]
    /\ lastCall' = [lastCall EXCEPT ![h] = "getNodeFreeResources"]
    /\ podFetches' = [podFetches EXCEPT ![h] = @ + 1]
    /\ UNCHANGED <<clusterNodes, clusterPods, nodeSnap, nodeFetches>>

\* Second step of a cycle; the pod listing fails
HandlerGetNodeFreeResourcesFails(h) ==
    /\ pc[h] = "getNodeFreeResources"
    /\ \E e \in FetchErrors :
            LET r == handlerGetNodeFreeResources(nodes[h], ListFailed(e), <<>>, <<>>)
            IN /\ nodes' = [nodes EXCEPT ![h] = r.nodes]
               /\ ret' = [ret EXCEPT ![h] = r.err]
               /\ pc' = [pc EXCEPT ![h] = r.pc]
               /\ resp' = [resp EXCEPT ![h] = r.resp]
               /\ fetchErr' = [fetchErr EXCEPT ![h] = Append(@, e)]
    /\ lastCall' = [lastCall EXCEPT ![h] = "getNodeFreeResources"]
    /\ podFetches' = [podFetches EXCEPT ![h] = @ + 1]
    /\ UNCHANGED <<clusterNodes, clusterPods, nodeSnap, podSnap, gpuReqs,
                   nodeFetches>>

\* The router invokes the handler for the next request: nothing of the
\* finished cycle is kept
NewRequest(h) ==
    /\ pc[h] = "done"
    /\ pc' = [pc EXCEPT ![h] = "getNodeInfo"]
    /\ nodes' = [nodes EXCEPT ![h] = <<>>]
    /\ ret' = [ret EXCEPT ![h] = Nil]
    /\ lastCall' = [lastCall EXCEPT ![h] = "none"]
    /\ nodeSnap' = [nodeSnap EXCEPT ![h] = <<>>]
    /\ podSnap' = [podSnap EXCEPT ![h] = <<>>]
    /\ gpuReqs' = [gpuReqs EXCEPT ![h] = <<>>]
    /\ resp' = [resp EXCEPT ![h] = NoResponse]
    /\ nodeFetches' = [nodeFetches EXCEPT ![h] = 0]
    /\ podFetches' = [podFetches EXCEPT ![h] = 0]
    /\ fetchErr' = [fetchErr EXCEPT ![h] = <<>>]
    /\ UNCHANGED <<clusterNodes, clusterPods>>

HandlerNext ==
    \/ \E i \in DOMAIN clusterPods, phase \in {PodSucceeded, PodFailed} :
            PodTerminates(i, phase)
    \/ NodeLeaves
    \/ \E h \in Handlers : HandlerGetNodeInfo(h)
    \/ \E h \in Handlers : HandlerGetNodeInfoFails(h)
    \/ \E h \in Handlers : HandlerGetNodeFreeResources(h)
    \/ \E h \in Handlers : HandlerGetNodeFreeResourcesFails(h)
    \/ \E h \in Handlers : NewRequest(h)

HandlerSpec == HandlerInit /\ [][HandlerNext]_vars

----------------------------------------------------------------------------
(* What the claims speak of, stated without the program's loops *)

RECURSIVE SumSeq(_)
SumSeq(q) == IF Len(q) = 0 THEN 0 ELSE Head(q) + SumSeq(Tail(q))

\* What a pod requests of one resource: the sum over its containers
RequestOf(pod, key) ==
    SumSeq([i \in 1..Len(pod.Containers) |->
                Lookup(pod.Containers[i].Requests, key)])

\* What the pods of a list that are bound to node n request of one resource
RequestedOn(pods, n, key) ==
    SumSeq([i \in 1..Len(pods) |->
                IF pods[i].NodeName = n THEN RequestOf(pods[i], key) ELSE 0])

\* The resource names with the vendor prefix that a resource list holds
VendorKeys(list) == {k \in DOMAIN list : HasPrefix(k, VendorPrefix)}

\* The resource names a pod requests
RequestedKeys(pod) ==
    UNION {DOMAIN pod.Containers[i].Requests : i \in 1..Len(pod.Containers)}

\* The GPU requests a pod may be charged: the request under one of its
\* vendor names with a nonzero request, zero when it has none
PossibleGpu(pod) ==
    LET nonzero == {k \in RequestedKeys(pod) :
                        HasPrefix(k, VendorPrefix) /\ RequestOf(pod, k) # 0}
    IN IF nonzero = {} THEN {0} ELSE {RequestOf(pod, k) : k \in nonzero}

\* The GPU requests charged to node n in caller c's last getNodeFreeResources
GpuChargedOn(c, n) ==
    SumSeq([i \in 1..Len(podSnap[c]) |->
                IF podSnap[c][i].NodeName = n THEN gpuReqs[c][i] ELSE 0])

\* Caller c's last call was a getNodeFreeResources that returned nil
FreeComputed(c) == lastCall[c] = "getNodeFreeResources" /\ ret[c] = Nil

\* The pods of a list that are bound to node n
PodsOn(pods, n) == {i \in 1..Len(pods) : pods[i].NodeName = n}

Terminal(pod) == pod.Phase = "Succeeded" \/ pod.Phase = "Failed"

\* A pod list with its terminated pods removed
RECURSIVE WithoutTerminal(_)
WithoutTerminal(pods) ==
    IF Len(pods) = 0 THEN <<>>
    ELSE (IF Terminal(Head(pods)) THEN <<>> ELSE <<Head(pods)>>)
            \o WithoutTerminal(Tail(pods))

NodeNames(items) == {items[i].Name : i \in 1..Len(items)}

----------------------------------------------------------------------------
(* C1: after getNodeFreeResources has returned nil, every node n of the map
   has, for cpu, memory and ephemeral storage, free = allocatable minus the sum
   of the requests of the listed pods bound to n, and free.gpu = allocatable.gpu
   minus the GPU requests charged for those pods, each being the pod's request
   under one of its nonzero vendor names; nothing is clamped at zero. *)
C1_FreeIsAllocatableMinusRequests ==
    \A c \in DOMAIN nodes :
        FreeComputed(c) =>
            \A n \in DOMAIN nodes[c] :
                LET node == nodes[c][n]
                    pods == podSnap[c]
                IN /\ node.Free.Cpu =
                        node.Allocatable.Cpu - RequestedOn(pods, n, ResourceCPU)
                   /\ node.Free.Memory =
                        node.Allocatable.Memory - RequestedOn(pods, n, ResourceMemory)
                   /\ node.Free.Ephemeral =
                        node.Allocatable.Ephemeral
                            - RequestedOn(pods, n, ResourceEphemeralStorage)
                   /\ node.Free.Gpu = node.Allocatable.Gpu - GpuChargedOn(c, n)
                   /\ \A i \in PodsOn(pods, n) :
                        gpuReqs[c][i] \in PossibleGpu(pods[i])

\* Two listed pods on one node whose requests exceed its allocatable cpu and
\* gpu: free is negative there
C1_Witness ==
    \E c \in DOMAIN nodes :
        /\ FreeComputed(c)
        /\ \E n \in DOMAIN nodes[c] :
            /\ Cardinality(PodsOn(podSnap[c], n)) >= 2
            /\ nodes[c][n].Free.Cpu < 0
            /\ nodes[c][n].Free.Gpu < 0
            /\ nodes[c][n].Free.Ephemeral > 0

(* C2: after getNodeFreeResources has returned nil, a node with no listed pod
   bound to it has free equal to allocatable in all four dimensions. *)
C2_IdleNodeFreeIsAllocatable ==
    \A c \in DOMAIN nodes :
        FreeComputed(c) =>
            \A n \in DOMAIN nodes[c] :
                PodsOn(podSnap[c], n) = {} =>
                    /\ nodes[c][n].Free.Cpu = nodes[c][n].Allocatable.Cpu
                    /\ nodes[c][n].Free.Memory = nodes[c][n].Allocatable.Memory
                    /\ nodes[c][n].Free.Gpu = nodes[c][n].Allocatable.Gpu
                    /\ nodes[c][n].Free.Ephemeral = nodes[c][n].Allocatable.Ephemeral

\* A node without pods beside a node with pods, its allocatable differing
\* from its capacity in every dimension it has
C2_Witness ==
    \E c \in DOMAIN nodes :
        /\ FreeComputed(c)
        /\ \E n, m \in DOMAIN nodes[c] :
            /\ PodsOn(podSnap[c], n) = {}
            /\ PodsOn(podSnap[c], m) # {}
            /\ nodes[c][n].Allocatable.Cpu # nodes[c][n].Capacity.Cpu
            /\ nodes[c][n].Allocatable.Memory # nodes[c][n].Capacity.Memory
            /\ nodes[c][n].Allocatable.Ephemeral # nodes[c][n].Capacity.Ephemeral
            /\ nodes[c][n].Free = nodes[c][n].Allocatable

(* C3: pods in phase Succeeded or Failed never reduce free: after
   getNodeFreeResources has returned nil, the pods it subtracted are exactly
   the cluster's pods with the terminated ones removed, and every node's free
   is its allocatable minus the requests of those pods alone. *)
C3_TerminatedPodsDoNotCount ==
    \A c \in DOMAIN nodes :
        FreeComputed(c) =>
            LET live == WithoutTerminal(clusterPods)
            IN /\ podSnap[c] = live
               /\ \A n \in DOMAIN nodes[c] :
                    LET node == nodes[c][n]
                    IN /\ node.Free.Cpu =
                            node.Allocatable.Cpu - RequestedOn(live, n, ResourceCPU)
                       /\ node.Free.Memory =
                            node.Allocatable.Memory
                                - RequestedOn(live, n, ResourceMemory)
                       /\ node.Free.Ephemeral =
                            node.Allocatable.Ephemeral
                                - RequestedOn(live, n, ResourceEphemeralStorage)
                       /\ node.Free.Gpu = node.Allocatable.Gpu - GpuChargedOn(c, n)

\* A node with a Succeeded pod, a Failed pod and free computed
C3_Witness ==
    \E c \in DOMAIN nodes :
        /\ FreeComputed(c)
        /\ \E n \in DOMAIN nodes[c] :
            \E i, j \in PodsOn(clusterPods, n) :
                /\ clusterPods[i].Phase = "Succeeded"
                /\ clusterPods[j].Phase = "Failed"
                /\ nodes[c][n].Free = nodes[c][n].Allocatable

(* C4: a listed pod whose node name is no key of the map (unscheduled, or on
   a node outside the snapshot) has no effect: after getNodeFreeResources has
   returned nil the map has no entry under that name, nothing was charged for
   the pod, and every node's free is what the listed pods without it give. *)
C4_StrayPodHasNoEffect ==
    \A c \in DOMAIN nodes :
        FreeComputed(c) =>
            LET pods == podSnap[c]
                known == NodeNames(nodeSnap[c])
                keep(p) == p.NodeName \in known
                kept == SelectSeq(pods, keep)
            IN /\ DOMAIN nodes[c] = known
               /\ \A i \in 1..Len(pods) :
                    ~keep(pods[i]) => /\ pods[i].NodeName \notin DOMAIN nodes[c]
                                      /\ gpuReqs[c][i] = 0
               /\ \A n \in DOMAIN nodes[c] :
                    LET node == nodes[c][n]
                    IN /\ node.Name = n
                       /\ node.Free.Cpu =
                            node.Allocatable.Cpu - RequestedOn(kept, n, ResourceCPU)
                       /\ node.Free.Memory =
                            node.Allocatable.Memory
                                - RequestedOn(kept, n, ResourceMemory)
                       /\ node.Free.Ephemeral =
                            node.Allocatable.Ephemeral
                                - RequestedOn(kept, n, ResourceEphemeralStorage)
                       /\ node.Free.Gpu = node.Allocatable.Gpu - GpuChargedOn(c, n)

\* An unscheduled pod and a pod on a node outside the map were listed, and
\* the call returned nil
C4_Witness ==
    \E c \in DOMAIN nodes :
        /\ FreeComputed(c)
        /\ nodes[c] # <<>>
        /\ \E i, j \in 1..Len(podSnap[c]) :
            /\ podSnap[c][i].NodeName = ""
            /\ podSnap[c][j].NodeName = "node-2"
            /\ "node-2" \notin DOMAIN nodes[c]

\* A resource list with exactly two vendor names, one at zero and one positive
ZeroAndPositive(list) ==
    \E k1, k2 \in VendorKeys(list) :
        /\ VendorKeys(list) = {k1, k2}
        /\ list[k1] = 0
        /\ list[k2] > 0

\* The positive vendor value of such a list
PositiveValue(list) ==
    LET k == CHOOSE k \in VendorKeys(list) : list[k] > 0 IN list[k]

\* The reconciled requests of a pod, per resource name
RequestList(pod) == [k \in RequestedKeys(pod) |-> RequestOf(pod, k)]

(* C5: a capacity list or a request list with one zero-valued and one
   positive-valued nvidia.com name resolves to the positive value under every
   enumeration order: the extracted Capacity.Gpu of such a node and the GPU
   request charged for such a pod are the positive value. *)
C5_ZeroNeverOverridesPositive ==
    \A c \in DOMAIN nodes :
        /\ \A i \in 1..Len(nodeSnap[c]) :
            LET capacity == nodeSnap[c][i].Capacity
            IN ZeroAndPositive(capacity) =>
                /\ nodes[c][nodeSnap[c][i].Name].Capacity.Gpu
                        = PositiveValue(capacity)
                /\ \A o \in Orders(DOMAIN capacity) :
                        gpuCapacity(capacity, o) = PositiveValue(capacity)
        /\ FreeComputed(c) =>
            \A i \in 1..Len(podSnap[c]) :
                LET requests == RequestList(podSnap[c][i])
                IN (ZeroAndPositive(requests)
                        /\ podSnap[c][i].NodeName \in DOMAIN nodes[c]) =>
                    /\ gpuReqs[c][i] = PositiveValue(requests)
                    /\ \A o \in Orders(DOMAIN requests) :
                            gpuReq(requests, o) = PositiveValue(requests)

\* Both cases have happened: nvidia.com/gpu at zero beside a positive name in a
\* node's capacity, and nvidia.com/gpu positive beside a zero name in a
\* charged pod's requests (or the other way round)
C5_Witness ==
    \E c \in DOMAIN nodes :
        /\ FreeComputed(c)
        /\ \E i \in 1..Len(nodeSnap[c]), j \in 1..Len(podSnap[c]) :
            /\ ZeroAndPositive(nodeSnap[c][i].Capacity)
            /\ ZeroAndPositive(RequestList(podSnap[c][j]))
            /\ podSnap[c][j].NodeName \in DOMAIN nodes[c]
            /\ nodes[c][nodeSnap[c][i].Name].Capacity.Gpu > 0
            /\ gpuReqs[c][j] > 0

(* C6: getNodeInfo takes a node's allocatable GPU from its allocatable list,
   whatever its capacity list holds: for every listed node whose allocatable
   list has nvidia.com/gpu as its only vendor name, the extracted
   Allocatable.Gpu is that entry's value. *)
C6_AllocatableGpuFromAllocatableList ==
    \A c \in DOMAIN nodes :
        \A i \in 1..Len(nodeSnap[c]) :
            LET node == nodeSnap[c][i]
            IN VendorKeys(node.Allocatable) = {NvidiaGpu} =>
                nodes[c][node.Name].Allocatable.Gpu = node.Allocatable[NvidiaGpu]

(* C8: when the pod listing fails, getNodeFreeResources returns the error of
   the listing and the caller's map is what it was before the call, free
   included. *)
C8_PodListFailureLeavesMapUntouched ==
    [][\A c \in DOMAIN nodes :
        (lastCall'[c] = "getNodeFreeResources" /\ fetchErr'[c] # <<Nil>>) =>
            /\ ret'[c] = fetchErr'[c][1]
            /\ nodes'[c] = nodes[c]]_vars

\* A failed call on a map whose free had been computed by an earlier call and
\* differs from allocatable
C8_Witness ==
    \E c \in DOMAIN nodes :
        /\ lastCall[c] = "getNodeFreeResources"
        /\ fetchErr[c] = <<"forbidden">>
        /\ ret[c] = "forbidden"
        /\ \E n \in DOMAIN nodes[c] :
            /\ nodes[c][n].Free # nodes[c][n].Allocatable
            /\ nodes[c][n].Free # ZeroResources

(* C9: when the node listing fails, getNodeInfo returns the error of the
   listing and the caller's map is what it was before the call: no entry is
   added, changed or removed. *)
C9_NodeListFailureLeavesMapUntouched ==
    [][\A c \in DOMAIN nodes :
        (lastCall'[c] = "getNodeInfo" /\ fetchErr'[c] # <<Nil>>) =>
            /\ ret'[c] = fetchErr'[c][1]
            /\ nodes'[c] = nodes[c]]_vars

\* A failed getNodeInfo on an empty map, and one on a map that had entries
C9_Witness ==
    \E c \in DOMAIN nodes :
        /\ lastCall[c] = "getNodeInfo"
        /\ fetchErr[c] = <<"connection refused">>
        /\ ret[c] = "connection refused"
        /\ nodes[c] # <<>>
        /\ \E n \in DOMAIN nodes[c] : nodes[c][n].Free.Cpu < 0

----------------------------------------------------------------------------
(* Claims about the handler's reporting cycle *)

\* The whole-unit value v is the quantity q rounded up (q is not negative)
RoundedUp(v, q) == v * 1000 >= q /\ (v - 1) * 1000 < q

\* The float f stands for the quantity q
SameFraction(f, q) == f.num * 1000 = q * f.den

(* C7: in a cycle answered with 200, a node name is in the output exactly if
   a node of that name was in the list the node listing returned, once; the
   entry carries that name, and its capacity and allocatable cpu, memory and
   ephemeral are the values of the listed node (cpu as a fraction of cores,
   memory and ephemeral in whole units); the map holds them unconverted. *)
C7_OutputIsTheNodeSnapshot ==
    \A h \in DOMAIN resp :
        resp[h].status = "200" =>
            LET body == resp[h].body
                snap == nodeSnap[h]
            IN /\ {body[i].name : i \in 1..Len(body)} = NodeNames(snap)
               /\ Len(body) = Len(snap)
               /\ \A i \in 1..Len(body) : \E j \in 1..Len(snap) :
                    LET out == body[i]
                        capacity == snap[j].Capacity
                        allocatable == snap[j].Allocatable
                        entry == nodes[h][snap[j].Name]
                    IN /\ out.name = snap[j].Name
                       /\ entry.Name = snap[j].Name
                       /\ entry.Capacity.Cpu = Lookup(capacity, ResourceCPU)
                       /\ entry.Capacity.Memory = Lookup(capacity, ResourceMemory)
                       /\ entry.Capacity.Ephemeral =
                            Lookup(capacity, ResourceEphemeralStorage)
                       /\ entry.Allocatable.Cpu = Lookup(allocatable, ResourceCPU)
                       /\ entry.Allocatable.Memory =
                            Lookup(allocatable, ResourceMemory)
                       /\ entry.Allocatable.Ephemeral =
                            Lookup(allocatable, ResourceEphemeralStorage)
                       /\ SameFraction(out.capacity.cpu,
                                       Lookup(capacity, ResourceCPU))
                       /\ RoundedUp(out.capacity.memory,
                                    Lookup(capacity, ResourceMemory))
                       /\ RoundedUp(out.capacity.ephemeral,
                                    Lookup(capacity, ResourceEphemeralStorage))
                       /\ SameFraction(out.allocatable.cpu,
                                       Lookup(allocatable, ResourceCPU))
                       /\ RoundedUp(out.allocatable.memory,
                                    Lookup(allocatable, ResourceMemory))
                       /\ RoundedUp(out.allocatable.ephemeral,
                                    Lookup(allocatable, ResourceEphemeralStorage))

\* A 200 response listing two nodes, node-2 first, one of them with an
\* allocatable memory that is no whole number of units
C7_Witness ==
    \E h \in DOMAIN resp :
        /\ resp[h].status = "200"
        /\ Len(resp[h].body) = 2
        /\ resp[h].body[1].name = "node-2"
        /\ nodes[h]["node-2"].Allocatable.Memory % 1000 # 0
        /\ resp[h].body[1].capacity.memory # resp[h].body[1].allocatable.memory

\* The messages of the two error responses
ErrorMessages ==
    {"error retrieving node information",
     "error retrieving available node resources"}

(* C10: a cycle is fail-fast.  It issues the node listing first and each
   listing at most once; after a failed node listing it has answered 500 and
   never issues the pod listing; after a failed pod listing it has answered
   500; a 500 carries a message and no node data; the pod listing is issued
   only after the node listing succeeded, and 200 with the node list is
   answered only when both listings succeeded. *)
C10_FailFast ==
    \A h \in DOMAIN pc :
        /\ nodeFetches[h] <= 1 /\ podFetches[h] <= 1
        /\ Len(fetchErr[h]) = nodeFetches[h] + podFetches[h]
        /\ podFetches[h] = 1 => (nodeFetches[h] = 1 /\ fetchErr[h][1] = Nil)
        /\ pc[h] = "getNodeFreeResources" =>
                (fetchErr[h] = <<Nil>> /\ resp[h] = NoResponse)
        /\ (nodeFetches[h] = 1 /\ fetchErr[h][1] # Nil) =>
                /\ podFetches[h] = 0
                /\ pc[h] = "done"
                /\ resp[h] = ErrorResponse("error retrieving node information")
        /\ (podFetches[h] = 1 /\ fetchErr[h][2] # Nil) =>
                /\ pc[h] = "done"
                /\ resp[h] =
                    ErrorResponse("error retrieving available node resources")
        /\ resp[h].status = "500" => resp[h].body \in ErrorMessages
        /\ resp[h].status = "200" =>
                /\ fetchErr[h] = <<Nil, Nil>>
                /\ pc[h] = "done"
        /\ resp[h].status \in {"none", "200", "500"}
        /\ pc[h] = "done" => resp[h] # NoResponse

\* One cycle stopped at the failed node listing, another at the failed pod
\* listing
C10_Witness ==
    \E h, g \in DOMAIN pc :
        /\ pc[h] = "done" /\ fetchErr[h] = <<"forbidden">>
        /\ resp[h].status = "500" /\ podFetches[h] = 0
        /\ pc[g] = "done" /\ fetchErr[g] = <<Nil, "connection refused">>
        /\ resp[g].status = "500" /\ nodes[g] # <<>>

----------------------------------------------------------------------------
(* C11: in a 200 response every entry carries the name of the Node it was
   built from and that Node's taints, except that a nil taint list is rendered
   as an empty list that is not nil; the Node itself is left as getNodeInfo
   built it: its name and taints, nil included, are those of the listed node. *)
C11_NameAndTaintsPassThrough ==
    \A h \in DOMAIN resp :
        resp[h].status = "200" =>
            /\ \A i \in 1..Len(resp[h].body) :
                LET out == resp[h].body[i]
                    node == nodes[h][out.name]
                IN /\ out.name \in DOMAIN nodes[h]
                   /\ out.name = node.Name
                   /\ ~out.taints.isNil
                   /\ out.taints.items = node.Taints.items
                   /\ ~node.Taints.isNil => out.taints = node.Taints
                   /\ node.Taints.isNil => out.taints = Taints(<<>>)
            /\ \A j \in 1..Len(nodeSnap[h]) :
                LET listed == nodeSnap[h][j]
                IN /\ nodes[h][listed.Name].Name = listed.Name
                   /\ nodes[h][listed.Name].Taints = listed.Taints

\* A 200 response with a node whose taints are nil in the map and empty in the
\* output, and a node whose taint is passed through
C11_Witness ==
    \E h \in DOMAIN resp :
        /\ resp[h].status = "200"
        /\ \E i, j \in 1..Len(resp[h].body) :
            /\ nodes[h][resp[h].body[i].name].Taints = NilTaints
            /\ resp[h].body[i].taints = Taints(<<>>)
            /\ Len(resp[h].body[j].taints.items) = 1
            /\ resp[h].body[j].taints = nodes[h][resp[h].body[j].name].Taints

----------------------------------------------------------------------------
\* A sequence enumerated in the order p, a permutation of its indices
Permuted(q, p) == [i \in 1..Len(q) |-> q[p[i]]]

(* C12: the free values do not depend on the order in which the listed pods
   are enumerated: whenever getNodeFreeResources has returned nil, running it
   on the map it was given with the listed pods in any other order (each pod
   keeping the GPU request it resolved to) yields the very map the call left,
   free equal in all four dimensions on every node. *)
C12_PodOrderDoesNotMatter ==
    [][\A c \in DOMAIN nodes :
        (lastCall'[c] = "getNodeFreeResources" /\ fetchErr'[c] = <<Nil>>) =>
            LET items == podSnap'[c]
            IN \A orders \in OrderChoices(podReqLists(items)) :
                podGpuReqs(nodes[c], items, orders) = gpuReqs'[c] =>
                    \A p \in Orders(1..Len(items)) :
                        getNodeFreeResources(nodes[c],
                            [Items |-> Permuted(items, p), err |-> Nil],
                            Permuted(orders, p)).nodes = nodes'[c]]_vars

\* Two different pods on one node were listed and subtracted
C12_Witness ==
    \E c \in DOMAIN nodes :
        /\ FreeComputed(c)
        /\ \E n \in DOMAIN nodes[c] :
            \E i, j \in PodsOn(podSnap[c], n) :
                /\ i < j
                /\ RequestOf(podSnap[c][i], ResourceCPU)
                        # RequestOf(podSnap[c][j], ResourceCPU)
                /\ nodes[c][n].Free.Cpu =
                        nodes[c][n].Allocatable.Cpu
                            - RequestOf(podSnap[c][i], ResourceCPU)
                            - RequestOf(podSnap[c][j], ResourceCPU)

----------------------------------------------------------------------------
(* C13: getNodeFreeResources changes only free: across every call of it,
   failed or not, the map has the same keys before and after, and every node
   keeps its name, taints, capacity and allocatable. *)
C13_OnlyFreeChanges ==
    [][\A c \in DOMAIN nodes :
        lastCall'[c] = "getNodeFreeResources" =>
            /\ DOMAIN nodes'[c] = DOMAIN nodes[c]
            /\ \A n \in DOMAIN nodes[c] :
                /\ nodes'[c][n].Name = nodes[c][n].Name
                /\ nodes'[c][n].Taints = nodes[c][n].Taints
                /\ nodes'[c][n].Capacity = nodes[c][n].Capacity
                /\ nodes'[c][n].Allocatable = nodes[c][n].Allocatable]_vars

\* After a call that subtracted a pod from a node and skipped a pod bound to no
\* node of the map: the keys are still the listed nodes, free is below
\* allocatable, and allocatable is still what the node listing gave
C13_Witness ==
    \E c \in DOMAIN nodes :
        /\ FreeComputed(c)
        /\ DOMAIN nodes[c] = NodeNames(nodeSnap[c])
        /\ \E i \in 1..Len(podSnap[c]) : podSnap[c][i].NodeName \notin DOMAIN nodes[c]
        /\ \E j \in 1..Len(nodeSnap[c]) :
            LET node == nodes[c][nodeSnap[c][j].Name]
            IN /\ node.Free.Cpu < node.Allocatable.Cpu
               /\ node.Free.Memory < node.Allocatable.Memory
               /\ node.Allocatable.Cpu =
                    Lookup(nodeSnap[c][j].Allocatable, ResourceCPU)
               /\ node.Allocatable.Memory =
                    Lookup(nodeSnap[c][j].Allocatable, ResourceMemory)

----------------------------------------------------------------------------
(* C14: for a fixed node snapshot and a fixed pod snapshot the result is the
   same whatever order the entries of a resource list are enumerated in: the
   capacity and allocatable of every listed node are what every enumeration
   order of its capacity list gives, and once getNodeFreeResources has returned
   nil the GPU request charged for every subtracted pod, and so free, is what
   every enumeration order of its request list gives. *)
C14_ResultIndependentOfEnumerationOrder ==
    \A c \in DOMAIN nodes :
        /\ \A i \in 1..Len(nodeSnap[c]) :
            LET listed == nodeSnap[c][i]
            IN \A o \in Orders(DOMAIN listed.Capacity) :
                /\ newNode(listed, o).Capacity = nodes[c][listed.Name].Capacity
                /\ newNode(listed, o).Allocatable
                        = nodes[c][listed.Name].Allocatable
        /\ FreeComputed(c) =>
            \A i \in 1..Len(podSnap[c]) :
                LET podReqs == PodRequestsAndLimits(podSnap[c][i]).reqs
                IN podSnap[c][i].NodeName \in DOMAIN nodes[c] =>
                    \A o \in Orders(DOMAIN podReqs) :
                        gpuReq(podReqs, o) = gpuReqs[c][i]

----------------------------------------------------------------------------
(* C15: every node of the map has Allocatable.Gpu equal to Capacity.Gpu, both
   being a value the scan of the listed node's capacity list resolves to,
   whatever its allocatable list holds; and once getNodeFreeResources has
   returned nil, free.gpu is that capacity GPU count minus the GPU requests
   charged to the node. *)
C15_AllocatableGpuIsCapacityGpu ==
    \A c \in DOMAIN nodes :
        /\ \A n \in DOMAIN nodes[c] :
            nodes[c][n].Allocatable.Gpu = nodes[c][n].Capacity.Gpu
        /\ \A i \in 1..Len(nodeSnap[c]) :
            LET listed == nodeSnap[c][i]
            IN nodes[c][listed.Name].Allocatable.Gpu \in
                {gpuCapacity(listed.Capacity, o) :
                    o \in Orders(DOMAIN listed.Capacity)}
        /\ FreeComputed(c) =>
            \A n \in DOMAIN nodes[c] :
                nodes[c][n].Free.Gpu = nodes[c][n].Capacity.Gpu - GpuChargedOn(c, n)

\* A node whose allocatable list gives one GPU and whose capacity list resolves
\* to two: Allocatable.Gpu is two, and free.gpu is two minus the one charged
C15_Witness ==
    \E c \in DOMAIN nodes :
        /\ FreeComputed(c)
        /\ \E i \in 1..Len(nodeSnap[c]) :
            LET listed == nodeSnap[c][i]
                node == nodes[c][listed.Name]
            IN /\ Lookup(listed.Allocatable, NvidiaGpu) = 1000
               /\ VendorKeys(listed.Allocatable) = {NvidiaGpu}
               /\ node.Allocatable.Gpu = 2000
               /\ node.Capacity.Gpu = 2000
               /\ GpuChargedOn(c, listed.Name) = 1000
               /\ node.Free.Gpu = 1000

----------------------------------------------------------------------------
\* The vendor names of a resource list that hold a strictly positive value
PositiveVendorKeys(list) == {k \in VendorKeys(list) : list[k] > 0}

\* A resource list without its entries under other names than the vendor's
VendorEntries(list) == [k \in VendorKeys(list) |-> list[k]]

\* v is a GPU quantity the claim allows for a resource list: zero when the
\* list has no strictly positive vendor entry (none at all included), and
\* otherwise the strictly positive value of one of its vendor entries
ResolvesTo(list, v) ==
    /\ v >= 0
    /\ VendorKeys(list) = {} => v = 0
    /\ PositiveVendorKeys(list) = {} => v = 0
    /\ PositiveVendorKeys(list) # {} =>
            \E k \in PositiveVendorKeys(list) : v = list[k]

(* C16: the GPU quantity resolved from a node's capacity list or from a
   subtracted pod's request list is zero when the list has no nvidia.com name,
   is never negative, and is otherwise zero or the strictly positive value of
   one of the list's nvidia.com names, a zero value never being selected over
   a positive one; entries under other names do not influence it: under every
   enumeration order the list resolves to a value its nvidia.com entries alone
   resolve to. *)
C16_GpuResolution ==
    \A c \in DOMAIN nodes :
        /\ \A i \in 1..Len(nodeSnap[c]) :
            LET capacity == nodeSnap[c][i].Capacity
            IN /\ ResolvesTo(capacity, nodes[c][nodeSnap[c][i].Name].Capacity.Gpu)
               /\ \A o \in Orders(DOMAIN capacity) :
                    /\ ResolvesTo(capacity, gpuCapacity(capacity, o))
                    /\ \E v \in Orders(VendorKeys(capacity)) :
                        gpuCapacity(capacity, o)
                            = gpuCapacity(VendorEntries(capacity), v)
        /\ FreeComputed(c) =>
            \A i \in 1..Len(podSnap[c]) :
                LET podReqs == PodRequestsAndLimits(podSnap[c][i]).reqs
                IN podSnap[c][i].NodeName \in DOMAIN nodes[c] =>
                    /\ ResolvesTo(podReqs, gpuReqs[c][i])
                    /\ \A o \in Orders(DOMAIN podReqs) :
                        /\ ResolvesTo(podReqs, gpuReq(podReqs, o))
                        /\ \E v \in Orders(VendorKeys(podReqs)) :
                            gpuReq(podReqs, o) = gpuReq(VendorEntries(podReqs), v)

\* A node and a pod on it whose lists hold nvidia.com/gpu at zero, another
\* nvidia.com name at one and a larger count under another vendor's name:
\* both resolve to one
C16_Witness ==
    \E c \in DOMAIN nodes :
        /\ FreeComputed(c)
        /\ \E i \in 1..Len(nodeSnap[c]), j \in 1..Len(podSnap[c]) :
            LET capacity == nodeSnap[c][i].Capacity
                podReqs == PodRequestsAndLimits(podSnap[c][j]).reqs
            IN /\ Lookup(capacity, NvidiaGpu) = 0 /\ NvidiaGpu \in DOMAIN capacity
               /\ Lookup(capacity, NvidiaMig) = 1000
               /\ Lookup(capacity, AmdGpu) = 2000
               /\ nodes[c][nodeSnap[c][i].Name].Capacity.Gpu = 1000
               /\ podSnap[c][j].NodeName = nodeSnap[c][i].Name
               /\ Lookup(podReqs, AmdGpu) = 2000
               /\ Lookup(podReqs, NvidiaGpu) = 0
               /\ gpuReqs[c][j] = 1000

----------------------------------------------------------------------------
\* What invocation h holds is what a cycle run alone on the snapshots h
\* fetched produces: the map after the node listing, and the 200 response
RunAlone(h) ==
    /\ pc[h] = "getNodeInfo" =>
            /\ nodes[h] = <<>> /\ resp[h] = NoResponse
            /\ nodeSnap[h] = <<>> /\ podSnap[h] = <<>>
    /\ pc[h] = "getNodeFreeResources" =>
            \E orders \in OrderChoices(capacityLists(nodeSnap[h])) :
                nodes[h] = handlerGetNodeInfo(
                                [Items |-> nodeSnap[h], err |-> Nil], orders).nodes
    /\ resp[h].status = "200" =>
            \E orders \in OrderChoices(capacityLists(nodeSnap[h])),
               podOrders \in OrderChoices(podReqLists(podSnap[h])),
               sliceOrder \in Orders(NodeNames(nodeSnap[h])) :
                LET first == handlerGetNodeInfo(
                                [Items |-> nodeSnap[h], err |-> Nil], orders)
                    second == handlerGetNodeFreeResources(first.nodes,
                                [Items |-> podSnap[h], err |-> Nil],
                                podOrders, sliceOrder)
                IN /\ resp[h] = second.resp
                   /\ nodes[h] = second.nodes

\* Everything invocation g holds
CycleState(g) ==
    <<pc[g], nodes[g], ret[g], lastCall[g], nodeSnap[g], podSnap[g], gpuReqs[g],
      resp[g], nodeFetches[g], podFetches[g], fetchErr[g]>>

(* C17: concurrent cycles do not interfere.  Under every interleaving, in
   every state each invocation holds what a cycle run alone on the snapshots it
   fetched produces (its map after the node listing, its 200 response), a step
   of one invocation changes nothing another invocation holds, and an
   invocation starts with an empty map and nothing of an earlier cycle. *)
C17_CyclesDoNotInterfere ==
    /\ [](\A h \in DOMAIN pc : RunAlone(h))
    /\ [][\A h, g \in DOMAIN pc :
            (h # g /\ pc'[h] # pc[h]) => CycleState(g)' = CycleState(g)]_vars

\* Two invocations have both answered 200 on different snapshots: one listed
\* two nodes and a live pod, the other one node after the pod had terminated
C17_Witness ==
    \E h, g \in DOMAIN pc :
        /\ resp[h].status = "200" /\ resp[g].status = "200"
        /\ Len(nodeSnap[h]) = 2 /\ Len(nodeSnap[g]) = 1
        /\ Len(podSnap[h]) = 1 /\ Len(podSnap[g]) = 0
        /\ Len(resp[h].body) = 2 /\ Len(resp[g].body) = 1
        /\ nodes[h]["node-2"].Free # nodes[h]["node-2"].Allocatable

----------------------------------------------------------------------------
\* The largest of a nonempty set of quantities
Max(S) == CHOOSE x \in S : \A y \in S : y <= x

\* A pod's request of one resource reconciled with limits: the larger of the
\* sum of its containers' requests and any one container's limit
EffectiveRequest(pod, key) ==
    Max({RequestOf(pod, key)}
            \cup {Lookup(pod.Containers[i].Limits, key) :
                        i \in 1..Len(pod.Containers)})

\* What the pods of a list bound to node n request of one resource, each
\* request reconciled with limits
EffectiveRequestedOn(pods, n, key) ==
    SumSeq([i \in 1..Len(pods) |->
                IF pods[i].NodeName = n THEN EffectiveRequest(pods[i], key) ELSE 0])

\* A pod list with the limits of every container removed
WithoutLimits(pods) ==
    [i \in 1..Len(pods) |->
        [pods[i] EXCEPT !.Containers =
            [j \in 1..Len(pods[i].Containers) |->
                Container(pods[i].Containers[j].Requests, <<>>)]]]

\* Some listed pod bound to a node of caller c's map has a container whose
\* limit of the resource exceeds the sum of the pod's requests of it
LimitAboveRequests(c, key) ==
    \E i \in 1..Len(podSnap[c]) :
        /\ podSnap[c][i].NodeName \in DOMAIN nodes[c]
        /\ EffectiveRequest(podSnap[c][i], key) > RequestOf(podSnap[c][i], key)

(* C18 as the claim states it: once getNodeFreeResources has returned nil,
   what was subtracted from a node in cpu and in memory is the sum over its
   listed pods of the effective request, the larger of the sum of the
   containers' requests and any container's limit. *)
C18_SubtractsEffectiveRequest ==
    \A c \in DOMAIN nodes :
        FreeComputed(c) =>
            \A n \in DOMAIN nodes[c] :
                /\ nodes[c][n].Free.Cpu =
                        nodes[c][n].Allocatable.Cpu
                            - EffectiveRequestedOn(podSnap[c], n, ResourceCPU)
                /\ nodes[c][n].Free.Memory =
                        nodes[c][n].Allocatable.Memory
                            - EffectiveRequestedOn(podSnap[c], n, ResourceMemory)

(* C18 amended: what is subtracted for a pod is the sum of its containers'
   requests and limits play no part in it: once getNodeFreeResources has
   returned nil, the map is the one the same call yields for the listed pods
   with every limit removed, and a pod with a limit above its requests is
   charged its requests. *)
C18_SubtractsRequestsWhateverTheLimits ==
    \A c \in DOMAIN nodes :
        FreeComputed(c) =>
            /\ \E orders \in OrderChoices(podReqLists(podSnap[c])) :
                getNodeFreeResources(nodes[c],
                    [Items |-> WithoutLimits(podSnap[c]), err |-> Nil],
                    orders).nodes = nodes[c]
            /\ \A i \in 1..Len(podSnap[c]) :
                LET pod == podSnap[c][i]
                    n == pod.NodeName
                IN (n \in DOMAIN nodes[c] /\ PodsOn(podSnap[c], n) = {i}) =>
                    /\ nodes[c][n].Free.Cpu =
                            nodes[c][n].Allocatable.Cpu - RequestOf(pod, ResourceCPU)
                    /\ nodes[c][n].Free.Memory =
                            nodes[c][n].Allocatable.Memory
                                - RequestOf(pod, ResourceMemory)

\* A pod with a cpu limit above its cpu requests was subtracted from a node,
\* alone on it: free.cpu is allocatable.cpu minus the requests
C18_Witness ==
    \E c \in DOMAIN nodes :
        /\ FreeComputed(c)
        /\ LimitAboveRequests(c, ResourceCPU)
        /\ \E i \in 1..Len(podSnap[c]) :
            LET pod == podSnap[c][i]
                n == pod.NodeName
            IN /\ n \in DOMAIN nodes[c]
               /\ PodsOn(podSnap[c], n) = {i}
               /\ Len(pod.Containers) = 2
               /\ EffectiveRequest(pod, ResourceCPU) > RequestOf(pod, ResourceCPU)
               /\ nodes[c][n].Free.Cpu =
                    nodes[c][n].Allocatable.Cpu - RequestOf(pod, ResourceCPU)

----------------------------------------------------------------------------
\* A map with the free of every node set to r
WithFree(m, r) == [n \in DOMAIN m |-> [m[n] EXCEPT !.Free = r]]

(* C19: getNodeFreeResources is idempotent on a map.  Whenever a call returns
   nil, the map it leaves is the one the call yields on the same map with
   every free zeroed, so nothing of what was in free before shows in it and
   free reflects the snapshot of this call alone; and when the call before it
   had returned nil on the same snapshot with the same GPU requests resolved,
   the map is left as it was: no request is subtracted twice. *)
C19_Idempotent ==
    [][\A c \in DOMAIN nodes :
        (lastCall'[c] = "getNodeFreeResources" /\ fetchErr'[c] = <<Nil>>
                /\ podFetches'[c] # podFetches[c]) =>
            /\ \E orders \in OrderChoices(podReqLists(podSnap'[c])) :
                /\ podGpuReqs(nodes[c], podSnap'[c], orders) = gpuReqs'[c]
                /\ nodes'[c] = getNodeFreeResources(
                                    WithFree(nodes[c], ZeroResources),
                                    [Items |-> podSnap'[c], err |-> Nil],
                                    orders).nodes
            /\ (FreeComputed(c) /\ podSnap'[c] = podSnap[c]
                    /\ gpuReqs'[c] = gpuReqs[c]) => nodes'[c] = nodes[c]
            /\ \A n \in DOMAIN nodes'[c] :
                nodes'[c][n].Free.Cpu =
                    nodes'[c][n].Allocatable.Cpu
                        - RequestedOn(podSnap'[c], n, ResourceCPU)]_vars

\* The third call in a row on one map: a pod of node-1 has terminated since
\* the map was filled, and free is allocatable minus the requests of the pod
\* that is left, which over-commits the node
C19_Witness ==
    \E c \in DOMAIN nodes :
        /\ FreeComputed(c)
        /\ podFetches[c] = 3
        /\ \E i, j \in PodsOn(clusterPods, "node-1") :
            /\ clusterPods[i].Phase = PodSucceeded
            /\ clusterPods[j].Phase = "Running"
            /\ Len(podSnap[c]) = 1
            /\ "node-1" \in DOMAIN nodes[c]
            /\ nodes[c]["node-1"].Free.Cpu =
                    nodes[c]["node-1"].Allocatable.Cpu
                        - RequestOf(clusterPods[j], ResourceCPU)
            /\ nodes[c]["node-1"].Free.Cpu < 0

====
